---- MODULE Spec2Model ----
(***************************************************************************)
(* A model of the task orchestration core of the assistant backend:        *)
(*   - the per-container task scheduler (backend/services/task_queue.py),  *)
(*   - the plan/approve/execute orchestrator                               *)
(*     (backend/services/claude_service.py) and the transport handlers of  *)
(*     backend/main.py that drive it.                                      *)
(* All coroutines run on one asyncio event loop: an action of the model is *)
(* the code a coroutine runs between two suspension points.                *)
(***************************************************************************)
EXTENDS Naturals, Sequences, FiniteSets

\* ------------------------------------------------------------------ bounds
MaxTasks == 3        \* QueuedTasks ever enqueued (one container served)
MaxTasksTwo == 2     \* QueuedTasks ever enqueued (both containers served)
MaxProcs == 3        \* process_queue coroutines alive at a time
MaxCqs == 4          \* ContainerQueue objects alive at a time
MaxLocks == 4        \* asyncio.Lock objects alive at a time
MaxAgentTasks == 2   \* ClaudeTasks ever started
MaxConfirms == 2     \* claude_confirm messages ever received
MaxGitCalls == 3     \* create_worktree and remove_worktree calls ever made
MaxBranchTasks == 1  \* start_task calls with a branch ever made
MaxSessions == 2     \* provider objects ever constructed
MaxResponds == 1     \* answered get_response calls per provider object (registry)
MaxRespondsLong == 21  \* answered get_response calls per provider object (long conversations)

Containers == {"c1", "c2"}

VARIABLES
    all_tasks,         \* _all_tasks: task id (enqueue order) -> QueuedTask
    container_queues,  \* _container_queues: container -> ContainerQueue object (0: no entry)
    cqs,               \* the heap of ContainerQueue objects (lock = 0: a free cell)
    locks,             \* the heap of asyncio.Lock objects
    spawned,           \* container -> process_queue coroutines created and not yet run
    procs,             \* the process_queue coroutines past their entry (pc = "idle": a free cell)
    ret                \* what the last scheduler call returned (NoRet after any other step)

qvars == <<all_tasks, container_queues, cqs, locks, spawned, procs, ret>>

VARIABLES
    tasks,             \* claude_service._tasks: task id (creation order) -> ClaudeTask
    planning,          \* task ids whose start_task coroutine awaits the planning agent
    confirms,          \* the confirm_task coroutines created by claude_confirm messages
    exec_spawns,       \* task id -> times the agent was spawned with full permissions
    denied_ok,         \* task ids for which deny_task returned True
    ws_open,           \* whether the websocket handed to confirm_task is still connected
    responding,        \* the container whose get_response call blocks the event loop ("none")
    aret               \* what the last deny_task call returned (NoRet after any other orchestrator step)

avars == <<tasks, planning, confirms, exec_spawns, denied_ok, ws_open, responding, aret>>

VARIABLES
    dirs,              \* the directories that exist at or below the worktrees root
    branches,          \* refs/heads of the repository
    git_calls,         \* the create_worktree and remove_worktree coroutines
    created,           \* results with created=True, no remove_worktree since
    plan_cwd           \* the cwd handed to the planning agent, per start_task with a branch

gvars == <<dirs, branches, git_calls, created, plan_cwd>>

VARIABLES
    conn_open,         \* websocket_endpoint coroutine (connection) -> still connected
    pending_start,     \* connection -> container whose queue_task message awaits start_processor
    origin,            \* QueuedTask id -> the connection whose queue_task message enqueued it
    spawned_by,        \* container -> connections whose handler the spawned coroutines carry
    handler_of,        \* process_queue coroutine -> connection whose process_queued_task it calls
    notes,             \* QueuedTask id -> the terminal notifications sent for it
    container_id,      \* connection -> the local variable container_id of its websocket_endpoint
    made               \* QueuedTask id -> the ClaudeTask its handler created (0: none)

tvars == <<conn_open, pending_start, origin, spawned_by, handler_of, notes, container_id, made>>

VARIABLES
    container_sessions,   \* _container_sessions: (container, provider name) -> provider object (0: no entry)
    container_work_dirs,  \* _container_work_dirs: container -> directory ("none": no entry)
    objs,                 \* the heap of provider objects, in order of construction
    sret                  \* what the last session call returned (NoSRet after any other step)

svars == <<container_sessions, container_work_dirs, objs, sret>>

VARIABLES
    worktree_list,     \* what git worktree list reports: one entry per worktree
    head,              \* what git rev-parse --abbrev-ref HEAD reports in the work dir
    lret               \* what the last list_branches call returned (NoList after any other git step)

lvars == <<worktree_list, head, lret>>

\* ------------------------------------------------------- scheduler: data
TaskStatus == {"queued", "running", "completed", "failed", "cancelled"}

NoRet == [op |-> "none", arg |-> 0, val |-> 0]

QueuedTask(c) ==
    [container_id |-> c, status |-> "queued", started_at |-> FALSE,
     completed_at |-> FALSE, error |-> "none"]

ContainerQueue(l) ==
    [queue |-> <<>>, lock |-> l, running_task |-> 0, processor_running |-> FALSE]

NoCq == ContainerQueue(0)

NewLock == [holder |-> 0, waiters |-> <<>>]

NoProc == [container_id |-> "none", pc |-> "idle", cq |-> 0, task |-> 0]

CqIds == 1..MaxCqs

LockIds == 1..MaxLocks

ProcIds == 1..MaxProcs

TaskIds == DOMAIN all_tasks

\* The heap: an object lives while something refers to it. A ContainerQueue is
\* referred to by _container_queues and by the process_queue coroutines bound
\* to it, a Lock by the ContainerQueues that carry it.
CqLive(r, map, ps) ==
    \/ \E c \in Containers : map[c] = r
    \/ \E p \in ProcIds : ps[p].cq = r

Collect(heap, map, ps) ==
    [r \in CqIds |-> IF CqLive(r, map, ps) THEN heap[r] ELSE NoCq]

CollectLocks(lheap, heap) ==
    [l \in LockIds |-> IF \E r \in CqIds : heap[r].lock = l THEN lheap[l] ELSE NewLock]

FreeCqs == {r \in CqIds : cqs[r].lock = 0}

FreeLocksShared == LockIds

FreeLocks == {l \in LockIds : \A r \in CqIds : cqs[r].lock # l}

FreeProcs == {p \in ProcIds : procs[p].pc = "idle"}

Coroutines ==
    LET S[cs \in SUBSET Containers] ==
            IF cs = {} THEN 0
            ELSE LET c == CHOOSE x \in cs : TRUE IN spawned[c] + S[cs \ {c}]
    IN S[Containers] + Cardinality(ProcIds \ FreeProcs)

Lowest(S) == CHOOSE x \in S : \A y \in S : x <= y

\* _get_container_queue: the container's record, constructed when absent.
HasCq(c) == container_queues[c] # 0

CanGet(c) == HasCq(c) \/ (FreeCqs # {} /\ FreeLocks # {})

GetCq(c) == IF HasCq(c) THEN container_queues[c] ELSE Lowest(FreeCqs)

CqsGet(c) ==
    IF HasCq(c) THEN cqs
    ELSE [cqs EXCEPT ![Lowest(FreeCqs)] = ContainerQueue(Lowest(FreeLocks))]

MapGet(c) == [container_queues EXCEPT ![c] = GetCq(c)]

QueuedOfAny(c) == {t \in TaskIds : all_tasks[t].status = "queued"}

TasksOf(c) == {t \in TaskIds : all_tasks[t].container_id = c}

QueuedOf(c) == {t \in TasksOf(c) : all_tasks[t].status = "queued"}

\* ---------------------------------------------------- scheduler: calls
\* queue_task: registers the task and appends it to the current record's queue.
PutFirst(queue, t) == <<t>> \o queue

\* cq.queue.put(task) on the unbounded asyncio.Queue.
Put(queue, t) == Append(queue, t)

queue_task(c, max) ==
    /\ Len(all_tasks) < max
    /\ CanGet(c)
    /\ all_tasks' = Append(all_tasks, QueuedTask(c))
    /\ cqs' = [CqsGet(c) EXCEPT ![GetCq(c)].queue = Put(@, Len(all_tasks) + 1)]
    /\ container_queues' = MapGet(c)
    /\ ret' = [op |-> "queue_task", arg |-> Len(all_tasks) + 1, val |-> 0]
    /\ UNCHANGED <<locks, spawned, procs>>
    /\ UNCHANGED avars

\* A queue_task call on its own.
QueueTask(c, max) == queue_task(c, max) /\ UNCHANGED <<gvars, tvars, svars, lvars>>

\* start_processor: spawns a process_queue coroutine unless the current
\* record says one is running.
start_processor(c) ==
    /\ CanGet(c)
    /\ cqs' = CqsGet(c)
    /\ container_queues' = MapGet(c)
    /\ IF ~CqsGet(c)[GetCq(c)].processor_running
       THEN /\ Coroutines < MaxProcs
            /\ spawned' = [spawned EXCEPT ![c] = @ + 1]
       ELSE UNCHANGED spawned
    /\ ret' = NoRet
    /\ UNCHANGED <<all_tasks, locks, procs>>
    /\ UNCHANGED avars

\* A start_processor call on its own.
StartProcessor(c) == start_processor(c) /\ UNCHANGED <<gvars, tvars, svars, lvars>>

CancelAllowedUnlessRunning(task) == task.status # "running"

CancelAllowedLoose(task) == task.status \in {"queued", "running"}

\* cancel_task's test of the task it found.
CancelAllowed(task) == task.status = "queued"

\* cancel_task, for a known or an unknown id.
CancelTask(t) ==
    /\ IF t \in TaskIds /\ CancelAllowed(all_tasks[t])
       THEN /\ all_tasks' = [all_tasks EXCEPT ![t].status = "cancelled",
                                              ![t].completed_at = TRUE]
            /\ ret' = [op |-> "cancel_task", arg |-> t, val |-> 1]
       ELSE /\ ret' = [op |-> "cancel_task", arg |-> t, val |-> 0]
            /\ UNCHANGED all_tasks
    /\ UNCHANGED <<container_queues, cqs, locks, spawned, procs>>
    /\ UNCHANGED <<avars, gvars, tvars, svars, lvars>>

ReplacementIdle(cq) ==
    [queue |-> <<>>, lock |-> cq.lock, running_task |-> cq.running_task,
     processor_running |-> FALSE]

ReplacementFresh(cq) == ContainerQueue(0)

\* The record clear_queue puts in place of cq (lock = 0 asks for a new Lock).
Replacement(cq) ==
    [queue |-> <<>>, lock |-> cq.lock, running_task |-> cq.running_task,
     processor_running |-> cq.processor_running]

\* clear_queue.
ClearQueue(c) ==
    /\ IF ~HasCq(c)
       THEN /\ ret' = [op |-> "clear_queue", arg |-> 0, val |-> 0, container_id |-> c]
            /\ UNCHANGED <<all_tasks, container_queues, cqs, locks>>
       ELSE /\ FreeCqs # {} /\ FreeLocks # {}
            /\ all_tasks' = [t \in TaskIds |->
                               IF t \in QueuedOf(c)
                               THEN [all_tasks[t] EXCEPT !.status = "cancelled",
                                                         !.completed_at = TRUE]
                               ELSE all_tasks[t]]
            /\ LET rep == Replacement(cqs[container_queues[c]])
                   new == IF rep.lock = 0 THEN [rep EXCEPT !.lock = Lowest(FreeLocks)] ELSE rep
                   old == container_queues[c]
                   cell == IF \E p \in ProcIds : procs[p].cq = old
                           THEN Lowest(FreeCqs) ELSE old
                   heap == [cqs EXCEPT ![cell] = new]
               IN /\ cqs' = heap
                  /\ locks' = CollectLocks(locks, heap)
                  /\ container_queues' = [container_queues EXCEPT ![c] = cell]
            /\ ret' = [op |-> "clear_queue", arg |-> 0, val |-> Cardinality(QueuedOf(c)),
                       container_id |-> c]
    /\ UNCHANGED <<spawned, procs>>
    /\ UNCHANGED <<avars, gvars, tvars, svars, lvars>>

\* get_queue_status: the counts are taken over _all_tasks, running and the
\* running-task summary from the container's current record (0: None).
CountOf(c, status) == Cardinality({t \in TasksOf(c) : all_tasks[t].status = status})

get_queue_status(c) ==
    LET running_task == IF HasCq(c) THEN cqs[container_queues[c]].running_task ELSE 0
    IN [container_id |-> c,
        queued |-> CountOf(c, "queued"),
        running |-> IF running_task # 0 THEN 1 ELSE 0,
        completed |-> CountOf(c, "completed"),
        failed |-> CountOf(c, "failed"),
        cancelled |-> CountOf(c, "cancelled"),
        running_task |-> running_task]

\* ------------------------------------------------ scheduler: process_queue
\* process_queue up to its first wait: binds the current record, returns when
\* the record says a processor is running, else claims it.
process_queue(c) ==
    /\ spawned[c] > 0
    /\ CanGet(c)
    /\ spawned' = [spawned EXCEPT ![c] = @ - 1]
    /\ container_queues' = MapGet(c)
    /\ IF CqsGet(c)[GetCq(c)].processor_running
       THEN /\ cqs' = CqsGet(c)
            /\ ret' = [op |-> "process_queue", arg |-> 0, val |-> 0, container_id |-> c]
            /\ UNCHANGED procs
       ELSE /\ cqs' = [CqsGet(c) EXCEPT ![GetCq(c)].processor_running = TRUE]
            /\ procs' = [procs EXCEPT ![Lowest(FreeProcs)] =
                            [container_id |-> c, pc |-> "get", cq |-> GetCq(c), task |-> 0]]
            /\ ret' = NoRet
    /\ UNCHANGED <<all_tasks, locks>>
    /\ UNCHANGED avars

\* A spawned process_queue coroutine runs up to its first wait.
ProcEnter(c) == process_queue(c) /\ UNCHANGED <<gvars, tvars, svars, lvars>>

\* cq.queue.get() inside wait_for hands over the head of the bound record's
\* queue; process_queue itself resumes in a later step.
ProcGet(p) ==
    /\ procs[p].pc = "get"
    /\ cqs[procs[p].cq].queue # <<>>
    /\ procs' = [procs EXCEPT ![p].pc = "got", ![p].task = Head(cqs[procs[p].cq].queue)]
    /\ cqs' = [cqs EXCEPT ![procs[p].cq].queue = Tail(@)]
    /\ ret' = NoRet
    /\ UNCHANGED <<all_tasks, container_queues, locks, spawned>>
    /\ UNCHANGED <<avars, gvars, tvars, svars, lvars>>

\* The wait timed out: leave the loop when the bound queue is empty (the
\* finally clause clears the bound record's flag), else wait again.
ProcTimeout(p) ==
    /\ procs[p].pc = "get"
    /\ IF cqs[procs[p].cq].queue = <<>>
       THEN LET ps == [procs EXCEPT ![p] = NoProc]
                heap == Collect([cqs EXCEPT ![procs[p].cq].processor_running = FALSE],
                                container_queues, ps)
            IN /\ procs' = ps
               /\ cqs' = heap
               /\ locks' = CollectLocks(locks, heap)
       ELSE UNCHANGED <<cqs, procs, locks>>
    /\ ret' = NoRet
    /\ UNCHANGED <<all_tasks, container_queues, spawned>>
    /\ UNCHANGED <<avars, gvars, tvars, svars, lvars>>

\* Lines 250-252: inside the lock, up to the handler call.
MarkRunning(p, t) ==
    /\ all_tasks' = [all_tasks EXCEPT ![t].status = "running", ![t].started_at = TRUE]
    /\ cqs' = [cqs EXCEPT ![procs[p].cq].running_task = t]
    /\ procs' = [procs EXCEPT ![p].pc = "handler"]

SkipsNever(task) == FALSE

\* The test that makes process_queue skip a dequeued task.
Skips(task) == task.status = "cancelled"

\* process_queue resumes. With the task it was handed: it skips a cancelled
\* task, else enters the lock; asyncio.Lock.acquire does not suspend when the
\* lock is free and nobody waits for it, otherwise the coroutine queues up.
\* From the lock's wait queue: it is woken, first come first served, once the
\* lock has been released.
ProcResume(p) ==
    /\ procs[p].pc \in {"got", "lockwait"}
    /\ LET t == procs[p].task
           l == cqs[procs[p].cq].lock
       IN IF procs[p].pc = "lockwait"
          THEN /\ locks[l].holder = 0
               /\ Head(locks[l].waiters) = p
               /\ locks' = [locks EXCEPT ![l].holder = p, ![l].waiters = Tail(@)]
               /\ MarkRunning(p, t)
          ELSE IF Skips(all_tasks[t])
          THEN /\ procs' = [procs EXCEPT ![p].pc = "get", ![p].task = 0]
               /\ UNCHANGED <<all_tasks, cqs, locks>>
          ELSE IF locks[l].holder = 0 /\ locks[l].waiters = <<>>
          THEN /\ locks' = [locks EXCEPT ![l].holder = p]
               /\ MarkRunning(p, t)
          ELSE /\ locks' = [locks EXCEPT ![l].waiters = Append(@, p)]
               /\ procs' = [procs EXCEPT ![p].pc = "lockwait"]
               /\ UNCHANGED <<all_tasks, cqs>>
    /\ ret' = NoRet
    /\ UNCHANGED <<container_queues, spawned>>
    /\ UNCHANGED <<avars, gvars, tvars, svars, lvars>>

OutcomeCompleted(raised) == "completed"

\* The status process_queue records after the handler call: lines 254-258.
Outcome(raised) == IF raised THEN "failed" ELSE "completed"

\* The handler returned (raised = FALSE) or raised an Exception: lines 256-264.
handler_ended(p, raised) ==
    /\ procs[p].pc = "handler"
    /\ LET t == procs[p].task
           r == procs[p].cq
           l == cqs[r].lock
       IN /\ all_tasks' = [all_tasks EXCEPT
                              ![t].status = Outcome(raised),
                              ![t].error = IF raised THEN "exception" ELSE @,
                              ![t].completed_at = TRUE]
          /\ cqs' = [cqs EXCEPT ![r].running_task = 0]
          /\ locks' = [locks EXCEPT ![l].holder = 0]
          /\ procs' = [procs EXCEPT ![p].pc = "get", ![p].task = 0]
    /\ ret' = NoRet
    /\ UNCHANGED <<container_queues, spawned>>
    /\ UNCHANGED avars

\* The handler call of coroutine p ends.
ProcHandled(p, raised) == handler_ended(p, raised) /\ UNCHANGED <<gvars, tvars, svars, lvars>>

ProcStep(p) ==
    \/ ProcGet(p)
    \/ ProcTimeout(p)
    \/ ProcResume(p)
    \/ \E raised \in BOOLEAN : ProcHandled(p, raised)

\* --------------------------------------------------- orchestrator: data
AgentStatus == {"planning", "pending_approval", "running", "completed", "failed", "denied"}

ClaudeTask(c) ==
    [container_id |-> c, status |-> "planning", plan |-> "none",
     result |-> "none", error |-> "none"]

ATaskIds == DOMAIN tasks

\* How the planning agent can end, and how the execution agent can exit.
PlanOutcomes == {"exit0", "exit1", "exit1_silent", "timeout", "not_found", "exception"}

ExitOutcomes == {"exit0", "exit1", "exit1_silent"}

\* A message handed to websocket.send_json; ok tells whether it went out.
Msg(type, id, text) == [type |-> type, taskId |-> id, text |-> text, ok |-> ws_open]

NotPendingText(status) == <<"Task is not pending approval (status: ", status, ")">>

\* ------------------------------------------------- orchestrator: calls
\* start_task up to the wait for the planning agent.
start_task(c, max) ==
    /\ responding = "none"
    /\ Len(tasks) < max
    /\ tasks' = Append(tasks, ClaudeTask(c))
    /\ exec_spawns' = Append(exec_spawns, 0)
    /\ planning' = planning \cup {Len(tasks) + 1}
    /\ UNCHANGED <<confirms, denied_ok, ws_open, responding>>
    /\ aret' = NoRet
    /\ UNCHANGED qvars

\* A start_task call without a branch, as the transport makes it.
StartTask(c, max) == start_task(c, max) /\ UNCHANGED <<gvars, tvars, svars, lvars>>

PlanResultStuck(task, outcome) == task

\* What start_task stores in the task when the planning agent ended: lines
\* 172-188.
PlanResult(task, outcome) ==
    CASE outcome = "exit0" ->
           [task EXCEPT !.plan = "plan", !.status = "pending_approval"]
      [] outcome = "exit1" ->
           [task EXCEPT !.status = "failed", !.error = "stderr"]
      [] outcome = "exit1_silent" ->
           [task EXCEPT !.status = "failed", !.error = "Claude planning failed"]
      [] outcome = "timeout" ->
           [task EXCEPT !.status = "failed", !.error = "Claude planning timed out"]
      [] outcome = "not_found" ->
           [task EXCEPT !.status = "failed", !.error = "Claude CLI not found. Is it installed?"]
      [] OTHER ->
           [task EXCEPT !.status = "failed", !.error = "str(e)"]

\* start_task after the planning agent ended: lines 172-190.
PlanDone(t, outcome) ==
    /\ responding = "none"
    /\ t \in planning
    /\ planning' = planning \ {t}
    /\ tasks' = [tasks EXCEPT ![t] = PlanResult(@, outcome)]
    /\ UNCHANGED <<confirms, exec_spawns, denied_ok, ws_open, responding>>
    /\ aret' = NoRet
    /\ UNCHANGED <<qvars, gvars, tvars, svars, lvars>>

\* The transport's claude_confirm message: acknowledges with "claude_running"
\* and creates the confirm_task coroutine. id may be unknown.
ConfirmMsg(id) ==
    /\ responding = "none"
    /\ ws_open
    /\ Len(confirms) < MaxConfirms
    /\ confirms' = Append(confirms,
                          [task_id |-> id, pc |-> "created", exit |-> "none",
                           msgs |-> <<Msg("claude_running", id, <<>>)>>])
    /\ UNCHANGED <<tasks, planning, exec_spawns, denied_ok, ws_open, responding>>
    /\ aret' = NoRet
    /\ UNCHANGED <<qvars, gvars, tvars, svars, lvars>>

ConfirmAcceptsRunning(task) == task.status \in {"pending_approval", "running"}

ConfirmAcceptsDenied(task) == task.status \in {"pending_approval", "denied"}

\* confirm_task's test of the task it found.
ConfirmAccepts(task) == task.status = "pending_approval"

\* confirm_task up to its first wait. The agent is forked before
\* create_subprocess_exec first suspends, and a failure to fork raises there,
\* so the check, the status change and the spawn are one step.
ConfirmRun(k, forks) ==
    /\ responding = "none"
    /\ k \in DOMAIN confirms
    /\ confirms[k].pc = "created"
    /\ LET id == confirms[k].task_id
       IN IF id \notin ATaskIds
          THEN /\ forks
               /\ confirms' = [confirms EXCEPT ![k].pc = "done",
                                  ![k].msgs = Append(@, Msg("claude_error", id, <<"Task not found">>))]
               /\ UNCHANGED <<tasks, exec_spawns>>
          ELSE IF ~ConfirmAccepts(tasks[id])
          THEN /\ forks
               /\ confirms' = [confirms EXCEPT ![k].pc = "done",
                                  ![k].msgs = Append(@, Msg("claude_error", id,
                                                            NotPendingText(tasks[id].status)))]
               /\ UNCHANGED <<tasks, exec_spawns>>
          ELSE IF forks
          THEN /\ tasks' = [tasks EXCEPT ![id].status = "running"]
               /\ exec_spawns' = [exec_spawns EXCEPT ![id] = @ + 1]
               /\ confirms' = [confirms EXCEPT ![k].pc = "exec"]
          ELSE /\ tasks' = [tasks EXCEPT ![id].status = "failed", ![id].error = "str(e)"]
               /\ confirms' = [confirms EXCEPT ![k].pc = "done", ![k].exit = "no_fork",
                                  ![k].msgs = Append(@, Msg("claude_error", id, <<"str(e)">>))]
               /\ UNCHANGED exec_spawns
    /\ UNCHANGED <<planning, denied_ok, ws_open, responding>>
    /\ aret' = NoRet
    /\ UNCHANGED <<qvars, gvars, tvars, svars, lvars>>

\* confirm_task after the agent exited: lines 228-258. A send_json that raises
\* inside the try block lands in the except clause, which marks the task
\* failed and sends again.
AgentExit(k, outcome) ==
    /\ responding = "none"
    /\ k \in DOMAIN confirms
    /\ confirms[k].pc = "exec"
    /\ LET id == confirms[k].task_id
           error == IF outcome = "exit1" THEN "stderr" ELSE "Claude execution failed"
           first == IF outcome = "exit0"
                    THEN Msg("claude_complete", id, <<"output">>)
                    ELSE Msg("claude_error", id, <<error>>)
           done == IF outcome = "exit0"
                   THEN [tasks[id] EXCEPT !.result = "output", !.status = "completed"]
                   ELSE [tasks[id] EXCEPT !.status = "failed", !.error = error]
       IN IF ws_open
          THEN /\ tasks' = [tasks EXCEPT ![id] = done]
               /\ confirms' = [confirms EXCEPT ![k].pc = "done", ![k].exit = outcome,
                                  ![k].msgs = Append(@, first)]
          ELSE /\ tasks' = [tasks EXCEPT ![id] =
                               [done EXCEPT !.status = "failed", !.error = "str(e)"]]
               /\ confirms' = [confirms EXCEPT ![k].pc = "done", ![k].exit = outcome,
                                  ![k].msgs = @ \o <<first, Msg("claude_error", id, <<"str(e)">>)>>]
    /\ UNCHANGED <<planning, exec_spawns, denied_ok, ws_open, responding>>
    /\ aret' = NoRet
    /\ UNCHANGED <<qvars, gvars, tvars, svars, lvars>>

FoundAny(id) == TRUE

\* _tasks.get(task_id) found a task.
Found(id) == id \in ATaskIds

\* deny_task, for a known or an unknown id.
DenyTask(id) ==
    /\ responding = "none"
    /\ IF Found(id)
       THEN /\ tasks' = [tasks EXCEPT ![id].status = "denied"]
            /\ denied_ok' = denied_ok \cup {id}
       ELSE UNCHANGED <<tasks, denied_ok>>
    /\ aret' = [op |-> "deny_task", arg |-> id, val |-> IF Found(id) THEN 1 ELSE 0]
    /\ UNCHANGED <<planning, confirms, exec_spawns, ws_open, responding>>
    /\ UNCHANGED <<qvars, gvars, tvars, svars, lvars>>

\* The client goes away: every later send_json on the websocket raises.
Disconnect ==
    /\ responding = "none"
    /\ ws_open
    /\ ws_open' = FALSE
    /\ UNCHANGED <<tasks, planning, confirms, exec_spawns, denied_ok, responding>>
    /\ aret' = NoRet
    /\ UNCHANGED <<qvars, gvars, tvars, svars, lvars>>

\* A gemini_request or local_request message: ai.get_response is a blocking
\* call, nothing else runs on the event loop until it returns.
RespondBegin(c) ==
    /\ responding = "none"
    /\ responding' = c
    /\ UNCHANGED <<tasks, planning, confirms, exec_spawns, denied_ok, ws_open>>
    /\ aret' = NoRet
    /\ UNCHANGED <<qvars, gvars, tvars, svars, lvars>>

RespondEnd ==
    /\ responding # "none"
    /\ responding' = "none"
    /\ UNCHANGED <<tasks, planning, confirms, exec_spawns, denied_ok, ws_open>>
    /\ aret' = NoRet
    /\ UNCHANGED <<qvars, gvars, tvars, svars, lvars>>

\* ------------------------------------------------------ worktrees: data
\* Branch names and paths are sequences of characters and of path components.
Branches == {<<"f", "/", "x">>, <<"f", "-", "x">>, <<"!">>}

NoBranch == <<>>

\* get_work_dir() and get_worktrees_dir().
WorkDir == <<"dev">>

WorktreesDir == <<".worktrees">>

\* The characters the two substitutions of sanitize_branch_name tell apart.
Slashes == {"/", "\\"}

SafeChars == {"f", "x", "0", "_", "-"}

RECURSIVE SanitizeKeepAll(_)
SanitizeKeepAll(branch) ==
    IF branch = <<>> THEN <<>>
    ELSE <<Head(branch)>> \o SanitizeKeepAll(Tail(branch))

\* sanitize_branch_name: slashes become dashes, then every character outside
\* [a-zA-Z0-9_-] is dropped.
RECURSIVE sanitize_branch_name(_)
sanitize_branch_name(branch) ==
    IF branch = <<>> THEN <<>>
    ELSE LET ch == IF Head(branch) \in Slashes THEN "-" ELSE Head(branch)
         IN (IF ch \in SafeChars THEN <<ch>> ELSE <<>>)
            \o sanitize_branch_name(Tail(branch))

\* Path's "/" operator: joining the empty name gives the directory itself.
Join(dir, name) == IF name = <<>> THEN dir ELSE Append(dir, name)

WorktreePath(branch) == Join(WorktreesDir, sanitize_branch_name(branch))

\* path lies strictly below the directory root.
Below(path, root) ==
    /\ Len(path) > Len(root)
    /\ SubSeq(path, 1, Len(root)) = root

ExistsNever(path, fs) == FALSE

ExistsAlways(path, fs) == TRUE

\* Path.exists().
Exists(path, fs) == path \in fs

\* get_worktree_path (claude_service.get_work_dir passes its result on).
get_worktree_path(branch) ==
    IF branch = NoBranch THEN WorkDir
    ELSE IF Exists(WorktreePath(branch), dirs) THEN WorktreePath(branch)
    ELSE WorkDir

NoResult == [success |-> FALSE, path |-> <<>>, existed |-> FALSE, created |-> FALSE,
             error |-> "none"]

\* ---------------------------------------------------- worktrees: listing
\* Refs of the remote, which git branch -a lists next to the local branches.
RemoteRefs == {<<"origin", "/", "x">>}

Refs == branches \cup RemoteRefs

\* What get_current_branch returns in a work dir with a detached HEAD.
Detached == <<"HEAD">>

NoList == [op |-> "none"]

\* branch.startswith("origin/").
IsOrigin(name) == Len(name) >= 2 /\ name[1] = "origin" /\ name[2] = "/"

\* list_worktrees: an entry has the key branch when git reports a branch line
\* for the worktree; the entry of a detached worktree has none.
HasBranch(w) == "branch" \in DOMAIN w

\* branch in worktree_branches.
HasWorktree(name, worktrees) == name \in {w.branch : w \in worktrees}

\* list_branches; listed: git branch exited with 0. {w["branch"] for w in
\* worktrees} raises KeyError for an entry without the key, which the except
\* clause swallows before any entry has been appended.
list_branches(refs, current, worktrees, listed) ==
    IF ~listed THEN {}
    ELSE IF \E w \in worktrees : ~HasBranch(w) THEN {}
    ELSE {[name |-> b, current |-> b = current, hasWorktree |-> HasWorktree(b, worktrees)] :
             b \in {r \in refs : ~IsOrigin(r)}}

\* ----------------------------------------------------- worktrees: calls
\* create_worktree up to its first wait: makes the worktrees root, answers
\* existed=True for an existing path, else asks git whether the branch exists.
CreateWorktree(b) ==
    /\ Len(git_calls) < MaxGitCalls
    /\ dirs' = dirs \cup {WorktreesDir}
    /\ git_calls' = Append(git_calls,
          IF Exists(WorktreePath(b), dirs \cup {WorktreesDir})
          THEN [op |-> "create", branch |-> b, pc |-> "done", new_branch |-> FALSE,
                result |-> [NoResult EXCEPT !.success = TRUE, !.path = WorktreePath(b),
                                            !.existed = TRUE]]
          ELSE [op |-> "create", branch |-> b, pc |-> "verify", new_branch |-> FALSE,
                result |-> NoResult])
    /\ UNCHANGED <<branches, created, plan_cwd>>
    /\ UNCHANGED <<qvars, avars, tvars, svars, lvars>>

\* git rev-parse --verify ended (raised: a subprocess could not be started);
\* create_worktree starts git worktree add, with -b for a branch not found.
GitVerified(k, raised) ==
    /\ k \in DOMAIN git_calls
    /\ git_calls[k].pc = "verify"
    /\ git_calls' = [git_calls EXCEPT ![k] =
          IF raised
          THEN [@ EXCEPT !.pc = "done", !.result = [NoResult EXCEPT !.error = "str(e)"]]
          ELSE [@ EXCEPT !.pc = "add", !.new_branch = (git_calls[k].branch \notin branches)]]
    /\ UNCHANGED <<dirs, branches, created, plan_cwd>>
    /\ UNCHANGED <<qvars, avars, tvars, svars, lvars>>

\* git worktree add ended. It can succeed when the path is free, no worktree
\* has the branch checked out and, with -b, the branch does not exist yet; it
\* can always fail.
GitAdded(k, ok) ==
    /\ k \in DOMAIN git_calls
    /\ git_calls[k].pc = "add"
    /\ LET b == git_calls[k].branch
           path == WorktreePath(b)
       IN IF ok
          THEN /\ path \notin dirs
               /\ git_calls[k].new_branch => b \notin branches
               /\ \A w \in worktree_list : HasBranch(w) => w.branch # b
               /\ dirs' = dirs \cup {path}
               /\ branches' = branches \cup {b}
               /\ git_calls' = [git_calls EXCEPT ![k].pc = "done",
                     ![k].result = [NoResult EXCEPT !.success = TRUE, !.path = path,
                                                    !.created = TRUE]]
               /\ created' = created \cup {[branch |-> b, path |-> path]}
               /\ worktree_list' = worktree_list \cup {[path |-> path, branch |-> b]}
          ELSE /\ git_calls' = [git_calls EXCEPT ![k].pc = "done",
                     ![k].result = [NoResult EXCEPT !.error = "stderr"]]
               /\ UNCHANGED <<dirs, branches, created, worktree_list>>
    /\ lret' = NoList
    /\ UNCHANGED <<plan_cwd, head>>
    /\ UNCHANGED <<qvars, avars, tvars, svars>>

\* remove_worktree up to its first wait.
RemoveWorktree(b) ==
    /\ Len(git_calls) < MaxGitCalls
    /\ git_calls' = Append(git_calls,
          IF ~Exists(WorktreePath(b), dirs)
          THEN [op |-> "remove", branch |-> b, pc |-> "done", new_branch |-> FALSE,
                result |-> [NoResult EXCEPT !.error = "Worktree does not exist"]]
          ELSE [op |-> "remove", branch |-> b, pc |-> "remove", new_branch |-> FALSE,
                result |-> NoResult])
    /\ created' = {}
    /\ UNCHANGED <<dirs, branches, plan_cwd>>
    /\ UNCHANGED <<qvars, avars, tvars, svars, lvars>>

\* git worktree remove --force ended; git refuses a path that is no worktree.
GitRemoved(k, ok) ==
    /\ k \in DOMAIN git_calls
    /\ git_calls[k].pc = "remove"
    /\ LET path == WorktreePath(git_calls[k].branch)
       IN IF ok
          THEN /\ path \in dirs
               /\ path # WorktreesDir
               /\ dirs' = dirs \ {path}
               /\ git_calls' = [git_calls EXCEPT ![k].pc = "done",
                     ![k].result = [NoResult EXCEPT !.success = TRUE]]
          ELSE /\ git_calls' = [git_calls EXCEPT ![k].pc = "done",
                     ![k].result = [NoResult EXCEPT !.error = "stderr"]]
               /\ UNCHANGED dirs
    /\ created' = {}
    /\ worktree_list' = {w \in worktree_list : w.path \in dirs' \/ w.path = WorkDir}
    /\ lret' = NoList
    /\ UNCHANGED <<branches, plan_cwd, head>>
    /\ UNCHANGED <<qvars, avars, tvars, svars>>

ListBranches(listed) ==
    /\ lret' = [op |-> "list_branches", listed |-> listed,
                val |-> list_branches(Refs, head, worktree_list, listed)]
    /\ UNCHANGED <<worktree_list, head>>
    /\ UNCHANGED <<qvars, avars, gvars, tvars, svars>>

\* Somebody runs git checkout in the work dir: of a branch that no worktree
\* has checked out, or detached.
GitCheckout(h) ==
    /\ h \in branches \cup {Detached}
    /\ h # head
    /\ \A w \in worktree_list : HasBranch(w) => w.branch # h
    /\ head' = h
    /\ worktree_list' = {w \in worktree_list : w.path # WorkDir}
                        \cup {IF h = Detached THEN [path |-> WorkDir]
                              ELSE [path |-> WorkDir, branch |-> h]}
    /\ lret' = NoList
    /\ UNCHANGED <<qvars, avars, gvars, tvars, svars>>

\* The names of the directories right below the worktrees root: iterdir().
Items(fs) ==
    {d[Len(d)] : d \in {e \in fs : Len(e) = Len(WorktreesDir) + 1 /\ Below(e, WorktreesDir)}}

\* any(sanitize_branch_name(b) == item.name for b in branch_names).
Matching(item, names) == \E b \in names : sanitize_branch_name(b) = item

\* cleanup_orphaned_worktrees up to its first wait: git worktree prune is
\* started.
CleanupOrphaned ==
    /\ Len(git_calls) < MaxGitCalls
    /\ git_calls' = Append(git_calls,
          [op |-> "cleanup", branch |-> NoBranch, pc |-> "prune", new_branch |-> FALSE,
           result |-> NoResult, names |-> {}, todo |-> {}, removed |-> 0])
    /\ UNCHANGED <<dirs, branches, created, plan_cwd>>
    /\ UNCHANGED <<qvars, avars, tvars, svars, lvars>>

\* list_branches: git branch ended; listed = FALSE: with a non-zero exit, and
\* list_branches returns []. It goes on to wait for list_worktrees.
CleanupBranches(k, listed) ==
    /\ k \in DOMAIN git_calls
    /\ git_calls[k].pc = "prune"
    /\ git_calls' = [git_calls EXCEPT
          ![k].pc = "worktrees",
          ![k].names = {e.name : e \in list_branches(Refs, head, worktree_list, listed)}]
    /\ UNCHANGED <<dirs, branches, created, plan_cwd>>
    /\ UNCHANGED <<qvars, avars, tvars, svars, lvars>>

\* list_branches returned; the directories of the worktrees root are read.
CleanupScan(k) ==
    /\ k \in DOMAIN git_calls
    /\ git_calls[k].pc = "worktrees"
    /\ LET todo == IF Exists(WorktreesDir, dirs) THEN Items(dirs) ELSE {}
       IN git_calls' = [git_calls EXCEPT ![k].todo = todo,
                                         ![k].pc = IF todo = {} THEN "done" ELSE "scan"]
    /\ UNCHANGED <<dirs, branches, created, plan_cwd>>
    /\ UNCHANGED <<qvars, avars, tvars, svars, lvars>>

\* One directory of the loop: kept when a listed branch matches it, else
\* remove_worktree(item.name) is called (ok: git worktree remove succeeded)
\* and a success is counted.
CleanupItem(k, item, ok) ==
    /\ k \in DOMAIN git_calls
    /\ git_calls[k].pc = "scan"
    /\ item \in git_calls[k].todo
    /\ LET path == WorktreePath(item)
           rest == git_calls[k].todo \ {item}
           removes == /\ ~Matching(item, git_calls[k].names)
                      /\ Exists(path, dirs)
                      /\ ok
       IN /\ Matching(item, git_calls[k].names) => ok
          /\ ok => path # WorktreesDir
          /\ dirs' = IF removes THEN dirs \ {path} ELSE dirs
          /\ created' = IF Matching(item, git_calls[k].names) THEN created ELSE {}
          /\ git_calls' = [git_calls EXCEPT
                ![k].todo = rest,
                ![k].removed = IF removes THEN @ + 1 ELSE @,
                ![k].pc = IF rest = {} THEN "done" ELSE "scan"]
    /\ worktree_list' = {w \in worktree_list : w.path \in dirs' \/ w.path = WorkDir}
    /\ lret' = NoList
    /\ UNCHANGED <<branches, plan_cwd, head>>
    /\ UNCHANGED <<qvars, avars, tvars, svars>>

\* start_task(prompt, container_id, branch): the planning agent is started in
\* get_work_dir(branch).
StartTaskOn(c, b, max) ==
    /\ start_task(c, max)
    /\ plan_cwd' = plan_cwd \cup
          {[task |-> Len(tasks) + 1, branch |-> b, cwd |-> get_worktree_path(b)]}
    /\ UNCHANGED <<dirs, branches, git_calls, created>>
    /\ UNCHANGED <<tvars, svars, lvars>>

\* ------------------------------------------------------ orchestrator: chat
\* How the chat agent's subprocess can end: its exit, the 90 s timeout, no
\* executable, any other exception of the try block.
ChatOutcomes == {"exit0", "exit1", "timeout", "not_found", "exception"}

ChatReturnUncaught(outcome) ==
    CASE outcome = "exit0" -> [raised |-> FALSE, text |-> "stdout"]
      [] outcome = "exit1" -> [raised |-> FALSE, text |-> "Sorry, I encountered an error: stderr"]
      [] outcome = "timeout" ->
           [raised |-> FALSE, text |-> "Sorry, I took too long to respond. Try again."]
      [] outcome = "not_found" ->
           [raised |-> FALSE, text |-> "Claude CLI is not installed or not in PATH."]
      [] OTHER -> [raised |-> TRUE, text |-> "none"]

\* How chat_with_claude ends, lines 68-92: the return statement reached.
ChatReturn(outcome) ==
    CASE outcome = "exit0" -> [raised |-> FALSE, text |-> "stdout"]
      [] outcome = "exit1" -> [raised |-> FALSE, text |-> "Sorry, I encountered an error: stderr"]
      [] outcome = "timeout" ->
           [raised |-> FALSE, text |-> "Sorry, I took too long to respond. Try again."]
      [] outcome = "not_found" ->
           [raised |-> FALSE, text |-> "Claude CLI is not installed or not in PATH."]
      [] OTHER -> [raised |-> FALSE, text |-> "Sorry, an error occurred: str(e)"]

\* A chat_with_claude call ends; all it worked on are its own locals.
ChatWithClaude(outcome) ==
    /\ responding = "none"
    /\ aret' = [op |-> "chat_with_claude", outcome |-> outcome,
                raised |-> ChatReturn(outcome).raised, text |-> ChatReturn(outcome).text]
    /\ UNCHANGED <<tasks, planning, confirms, exec_spawns, denied_ok, ws_open, responding>>
    /\ UNCHANGED <<qvars, gvars, tvars, svars, lvars>>

\* ------------------------------------------------- transport: queue_task
\* websocket_endpoint runs once per connection; its queue_task branch defines
\* the handler process_queued_task as a closure over that connection's
\* websocket and hands it to start_processor.
Connections == {"ws1", "ws2"}

WorkOutcomes == {"ok", "failed"}

\* The queue_task message up to the wait in send_json("task_queued"): lines
\* 282-296.
TQueueTask(ws, c, max) ==
    /\ conn_open[ws]
    /\ pending_start[ws] = "none"
    /\ queue_task(c, max)
    /\ origin' = Append(origin, ws)
    /\ notes' = Append(notes, <<>>)
    /\ pending_start' = [pending_start EXCEPT ![ws] = c]
    /\ container_id' = [container_id EXCEPT ![ws] = c]
    /\ made' = Append(made, 0)
    /\ UNCHANGED <<conn_open, spawned_by, handler_of>>
    /\ UNCHANGED <<gvars, svars, lvars>>

\* The queue_task message after send_json returned: line 342.
TStartProcessor(ws) ==
    /\ conn_open[ws]
    /\ pending_start[ws] # "none"
    /\ LET c == pending_start[ws]
       IN /\ start_processor(c)
          /\ spawned_by' = IF spawned'[c] > spawned[c]
                           THEN [spawned_by EXCEPT ![c] = Append(@, ws)]
                           ELSE spawned_by
    /\ pending_start' = [pending_start EXCEPT ![ws] = "none"]
    /\ UNCHANGED <<conn_open, origin, handler_of, notes, container_id, made>>
    /\ UNCHANGED <<gvars, svars, lvars>>

\* The event loop runs the oldest spawned process_queue coroutine of c up to
\* its first wait; it carries the handler it was created with.
TProcEnter(c) ==
    /\ process_queue(c)
    /\ spawned_by' = [spawned_by EXCEPT ![c] = Tail(@)]
    /\ handler_of' = IF procs' # procs
                     THEN [handler_of EXCEPT ![Lowest(FreeProcs)] = Head(spawned_by[c])]
                     ELSE handler_of
    /\ UNCHANGED <<conn_open, pending_start, origin, notes, container_id, made>>
    /\ UNCHANGED <<gvars, svars, lvars>>

\* What process_queued_task does with the outcome of the task's work, lines
\* 299-340: <<notifications it hands to send_json, whether it raises>>. A
\* failure of the work or of the first send_json lands in the except clause,
\* which sends queued_task_failed; only a send_json failing there leaves the
\* handler as an exception.
Note(type, ws) == [type |-> type, ws |-> ws, ok |-> conn_open[ws]]

HandlerRaises(work, ws) == ~conn_open[ws]

HandlerNotes(work, ws) ==
    IF work = "ok" /\ conn_open[ws] THEN <<Note("queued_task_complete", ws)>>
    ELSE IF work = "ok"
    THEN <<Note("queued_task_complete", ws), Note("queued_task_failed", ws)>>
    ELSE <<Note("queued_task_failed", ws)>>

\* Another message of the connection that carries a containerId, here
\* queue_status: it assigns the same local variable container_id.
TQueueStatus(ws, c) ==
    /\ conn_open[ws]
    /\ pending_start[ws] = "none"
    /\ container_id' = [container_id EXCEPT ![ws] = c]
    /\ UNCHANGED <<conn_open, pending_start, origin, spawned_by, handler_of, notes, made>>
    /\ UNCHANGED <<qvars, avars, gvars, svars, lvars>>

\* The container process_queued_task hands to start_task, line 302: the
\* closure reads container_id of the websocket_endpoint call that defined it.
OwnerGiven(p) == container_id[handler_of[p]]

\* process_queued_task for a claude_request task up to the wait for the
\* planning agent inside start_task.
THandlerStart(p, max) ==
    /\ procs[p].pc = "handler"
    /\ made[procs[p].task] = 0
    /\ start_task(OwnerGiven(p), max)
    /\ made' = [made EXCEPT ![procs[p].task] = Len(tasks) + 1]
    /\ UNCHANGED <<conn_open, pending_start, origin, spawned_by, handler_of, notes,
                   container_id>>
    /\ UNCHANGED <<gvars, svars, lvars>>

\* The handler call of coroutine p ends, the task's work having succeeded or
\* failed; a claude_request task's work is start_task, which has returned
\* and fails when the ClaudeTask failed.
THandled(p, work) ==
    /\ procs[p].pc = "handler"
    /\ made[procs[p].task] \notin planning
    /\ (made[procs[p].task] # 0 /\ tasks[made[procs[p].task]].status = "failed")
       => work = "failed"
    /\ handler_ended(p, HandlerRaises(work, handler_of[p]))
    /\ notes' = [notes EXCEPT ![procs[p].task] = @ \o HandlerNotes(work, handler_of[p])]
    /\ UNCHANGED <<conn_open, pending_start, origin, spawned_by, handler_of, container_id,
                   made>>
    /\ UNCHANGED <<gvars, svars, lvars>>

\* The client of connection ws goes away; its websocket_endpoint coroutine
\* ends at its next send or receive.
TDisconnect(ws) ==
    /\ conn_open[ws]
    /\ conn_open' = [conn_open EXCEPT ![ws] = FALSE]
    /\ pending_start' = [pending_start EXCEPT ![ws] = "none"]
    /\ UNCHANGED <<origin, spawned_by, handler_of, notes, container_id, made>>
    /\ UNCHANGED <<qvars, avars, gvars, svars, lvars>>

\* ------------------------------------------------------- sessions: data
\* _providers, and a name that is not in it.
Providers == {"gemini", "local"}

ProviderNames == Providers \cup {"other"}

SessKeys == Containers \X ProviderNames

SessDirs == {"d1", "d2"}

NoDir == "none"

NoSRet == [op |-> "none"]

\* The window of LocalProvider.get_response: twenty exchanges.
HistoryWindow == 40

ObjIds == 1..Len(objs)

\* LocalProvider(work_dir): an empty history of its own. calls counts the
\* answered get_response calls, to tell their messages apart.
NewLocal(dir) == [kind |-> "local", work_dir |-> dir, history |-> <<>>, calls |-> 0]

\* GeminiProvider(): model.start_chat(history=[]); the conversation is the
\* chat object's history.
NewGemini == [kind |-> "gemini", work_dir |-> NoDir, history |-> <<>>, calls |-> 0]

Entry(role, content) == [role |-> role, content |-> content]

\* self.history[-40:] when the history is longer than the window.
Trim(history) ==
    IF Len(history) > HistoryWindow
    THEN SubSeq(history, Len(history) - HistoryWindow + 1, Len(history))
    ELSE history

\* msg.get("role", "user") and msg.get("content", "") of set_history.
Normalised(msg) ==
    Entry(IF "role" \in DOMAIN msg THEN msg.role ELSE "user",
          IF "content" \in DOMAIN msg THEN msg.content ELSE "")

\* An externally supplied history of n entries.
Supplied(n) ==
    [i \in 1..n |-> Entry(IF i % 2 = 1 THEN "user" ELSE "assistant", 0 - i)]

\* --------------------------------------------------- sessions: registry
MissingAlways(key) == TRUE

\* key not in _container_sessions.
Missing(key) == container_sessions[key] = 0

\* get_ai_for_container(container_id, name, work_dir); built: whether the
\* provider's constructor returns (GeminiProvider raises without an API key).
get_ai_for_container(c, name, dir, built) ==
    LET key == <<c, name>>
        recorded == IF dir # NoDir THEN [container_work_dirs EXCEPT ![c] = dir]
                    ELSE container_work_dirs
        id == container_sessions[key]
    IN /\ container_work_dirs' = recorded
       /\ IF Missing(key)
          THEN IF name \notin Providers \/ ~built
               THEN /\ name = "local" => built
                    /\ sret' = [op |-> "get", key |-> key, val |-> 0, error |-> "ValueError"]
                    /\ UNCHANGED <<container_sessions, objs>>
               ELSE /\ Len(objs) < MaxSessions
                    /\ objs' = Append(objs, IF name = "local" THEN NewLocal(recorded[c])
                                            ELSE NewGemini)
                    /\ container_sessions' = [container_sessions EXCEPT ![key] = Len(objs) + 1]
                    /\ sret' = [op |-> "get", key |-> key, val |-> Len(objs) + 1,
                                error |-> "none"]
          ELSE /\ built
               /\ objs' = IF name = "local" /\ dir # NoDir
                          THEN [objs EXCEPT ![id].work_dir = dir]
                          ELSE objs
               /\ sret' = [op |-> "get", key |-> key, val |-> id, error |-> "none"]
               /\ UNCHANGED container_sessions

GetOrCreate(c, name, dir, built) ==
    /\ get_ai_for_container(c, name, dir, built)
    /\ UNCHANGED <<qvars, avars, gvars, tvars, lvars>>

\* clear_container_session(container_id, name).
ClearOne(c, name) ==
    /\ container_sessions' = [container_sessions EXCEPT ![<<c, name>>] = 0]
    /\ sret' = [op |-> "clear_one", key |-> <<c, name>>, val |-> 0, error |-> "none"]
    /\ UNCHANGED <<container_work_dirs, objs>>
    /\ UNCHANGED <<qvars, avars, gvars, tvars, lvars>>

SameContainerAny(k, c) == TRUE

\* k[0] == container_id.
SameContainer(k, c) == k[1] = c

\* clear_container_session(container_id): every key of the container.
ClearAll(c) ==
    /\ container_sessions' = [k \in SessKeys |->
                                 IF SameContainer(k, c) THEN 0 ELSE container_sessions[k]]
    /\ sret' = [op |-> "clear_all", key |-> <<c, "">>, val |-> 0, error |-> "none"]
    /\ UNCHANGED <<container_work_dirs, objs>>
    /\ UNCHANGED <<qvars, avars, gvars, tvars, lvars>>

\* clear_all_sessions(): the registry becomes a new empty dict.
ClearEverything ==
    /\ container_sessions' = [k \in SessKeys |-> 0]
    /\ sret' = [op |-> "clear_everything", key |-> <<"", "">>, val |-> 0, error |-> "none"]
    /\ UNCHANGED <<container_work_dirs, objs>>
    /\ UNCHANGED <<qvars, avars, gvars, tvars, lvars>>

\* -------------------------------------------------- sessions: providers
\* What get_response leaves in the history when the model answered.
Answered(obj) ==
    LET n == obj.calls + 1
    IN IF obj.kind = "local"
       THEN Trim(obj.history \o <<Entry("user", n), Entry("assistant", n)>>)
       ELSE obj.history \o <<Entry("user", n), Entry("model", n)>>

FailedKeepsQuestion(obj) == obj.history \o <<Entry("user", obj.calls + 1)>>

\* What get_response leaves in the history when the call raises: the
\* question was appended to the local list messages only.
Failed(obj) == obj.history

\* get_response(message) on provider object o, a synchronous call; answered:
\* the model replied (else the call raises).
Respond(o, answered, max) ==
    /\ o \in ObjIds
    /\ objs[o].calls < max
    /\ objs' = IF answered
               THEN [objs EXCEPT ![o].calls = @ + 1, ![o].history = Answered(objs[o])]
               ELSE [objs EXCEPT ![o].history = Failed(objs[o])]
    /\ sret' = [op |-> "get_response", key |-> <<"", "">>, val |-> o,
                error |-> IF answered THEN "none" ELSE "raised"]
    /\ UNCHANGED <<container_sessions, container_work_dirs>>
    /\ UNCHANGED <<qvars, avars, gvars, tvars, lvars>>

\* set_history(history) on provider object o: LocalProvider copies the
\* entries; GeminiProvider inherits the base class's method, which does nothing.
Replaced(obj, history) ==
    IF obj.kind = "local"
    THEN [i \in 1..Len(history) |-> Normalised(history[i])]
    ELSE obj.history

SetHistory(o, history) ==
    /\ o \in ObjIds
    /\ objs' = [objs EXCEPT ![o].history = Replaced(objs[o], history)]
    /\ sret' = [op |-> "set_history", key |-> <<"", "">>, val |-> o, error |-> "none",
                arg |-> history]
    /\ UNCHANGED <<container_sessions, container_work_dirs>>
    /\ UNCHANGED <<qvars, avars, gvars, tvars, lvars>>

SInit ==
    /\ container_sessions = [k \in SessKeys |-> 0]
    /\ container_work_dirs = [c \in Containers |-> NoDir]
    /\ objs = <<>>
    /\ sret = NoSRet

\* The registry under every call the transport can make.
NextSessions ==
    \/ \E c \in Containers, name \in ProviderNames, dir \in SessDirs \cup {NoDir},
          built \in BOOLEAN : GetOrCreate(c, name, dir, built)
    \/ \E c \in Containers, name \in Providers : ClearOne(c, name)
    \/ \E c \in Containers : ClearAll(c)
    \/ ClearEverything
    \/ \E o \in 1..MaxSessions, answered \in BOOLEAN : Respond(o, answered, MaxResponds)
    \/ \E o \in 1..MaxSessions : SetHistory(o, <<[role |-> "assistant"]>>)

\* One container's sessions through a long conversation.
NextHistory ==
    \/ \E name \in Providers : GetOrCreate("c1", name, NoDir, TRUE)
    \/ \E o \in 1..MaxSessions, answered \in BOOLEAN : Respond(o, answered, MaxRespondsLong)
    \/ \E o \in 1..MaxSessions, n \in {0, HistoryWindow + 1} : SetHistory(o, Supplied(n))

\* ----------------------------------------------------------- specification
QInit ==
    /\ all_tasks = <<>>
    /\ container_queues = [c \in Containers |-> 0]
    /\ cqs = [r \in CqIds |-> NoCq]
    /\ locks = [l \in LockIds |-> NewLock]
    /\ spawned = [c \in Containers |-> 0]
    /\ procs = [p \in ProcIds |-> NoProc]
    /\ ret = NoRet

AInit ==
    /\ tasks = <<>>
    /\ planning = {}
    /\ confirms = <<>>
    /\ exec_spawns = <<>>
    /\ denied_ok = {}
    /\ ws_open = TRUE
    /\ responding = "none"
    /\ aret = NoRet

\* The scheduler serving the containers Cs.
QStep(Cs, max) ==
    \/ \E c \in Cs : QueueTask(c, max)
    \/ \E c \in Cs : StartProcessor(c)
    \/ \E t \in 1..(Len(all_tasks) + 1) : CancelTask(t)
    \/ \E c \in Cs : ClearQueue(c)
    \/ \E c \in Cs : ProcEnter(c)
    \/ \E p \in ProcIds : ProcStep(p)

\* The orchestrator and the transport handlers that call it.
AStep(max, outcomes) ==
    \/ \E c \in Containers : StartTask(c, max)
    \/ \E t \in ATaskIds, o \in outcomes : PlanDone(t, o)
    \/ \E id \in 1..(MaxAgentTasks + 1) : ConfirmMsg(id)
    \/ \E k \in 1..MaxConfirms, forks \in BOOLEAN : ConfirmRun(k, forks)
    \/ \E k \in 1..MaxConfirms, o \in ExitOutcomes : AgentExit(k, o)
    \/ \E id \in 1..(MaxAgentTasks + 1) : DenyTask(id)
    \/ Disconnect
    \/ \E c \in Containers : RespondBegin(c)
    \/ RespondEnd

GInit ==
    /\ dirs = {}
    /\ branches = {<<"f", "-", "x">>}
    /\ git_calls = <<>>
    /\ created = {}
    /\ plan_cwd = {}

LInit ==
    /\ worktree_list = {[path |-> WorkDir, branch |-> <<"f", "-", "x">>]}
    /\ head = <<"f", "-", "x">>
    /\ lret = NoList

TInit ==
    /\ conn_open = [ws \in Connections |-> TRUE]
    /\ pending_start = [ws \in Connections |-> "none"]
    /\ origin = <<>>
    /\ spawned_by = [c \in Containers |-> <<>>]
    /\ handler_of = [p \in ProcIds |-> "none"]
    /\ notes = <<>>
    /\ container_id = [ws \in Connections |-> "none"]
    /\ made = <<>>

\* Worktree calls and start_task with a branch.
NextGit ==
    \/ \E b \in Branches : CreateWorktree(b)
    \/ \E k \in 1..MaxGitCalls, raised \in BOOLEAN : GitVerified(k, raised)
    \/ \E k \in 1..MaxGitCalls, ok \in BOOLEAN : GitAdded(k, ok)
    \/ \E b \in Branches : RemoveWorktree(b)
    \/ \E k \in 1..MaxGitCalls, ok \in BOOLEAN : GitRemoved(k, ok)
    \/ CleanupOrphaned
    \/ \E k \in 1..MaxGitCalls, listed \in BOOLEAN : CleanupBranches(k, listed)
    \/ \E k \in 1..MaxGitCalls : CleanupScan(k)
    \/ \E k \in 1..MaxGitCalls, b \in Branches, ok \in BOOLEAN :
          CleanupItem(k, sanitize_branch_name(b), ok)
    \/ \E b \in Branches \cup {NoBranch} : StartTaskOn("c1", b, MaxBranchTasks)
    \/ \E t \in ATaskIds, o \in {"exit0", "exit1"} : PlanDone(t, o)

\* The branch listing while worktrees come and go.
NextList ==
    \/ \E listed \in BOOLEAN : ListBranches(listed)
    \/ \E h \in Branches \cup {Detached} : GitCheckout(h)
    \/ \E b \in Branches : CreateWorktree(b)
    \/ \E k \in 1..MaxGitCalls, raised \in BOOLEAN : GitVerified(k, raised)
    \/ \E k \in 1..MaxGitCalls, ok \in BOOLEAN : GitAdded(k, ok)
    \/ \E b \in Branches : RemoveWorktree(b)
    \/ \E k \in 1..MaxGitCalls, ok \in BOOLEAN : GitRemoved(k, ok)

\* Two connections sending queue_task messages for one container.
NextTransport ==
    \/ \E ws \in Connections : TQueueTask(ws, "c1", MaxTasks)
    \/ \E ws \in Connections : TStartProcessor(ws)
    \/ TProcEnter("c1")
    \/ \E p \in ProcIds : ProcGet(p)
    \/ \E p \in ProcIds : ProcTimeout(p)
    \/ \E p \in ProcIds : ProcResume(p)
    \/ \E p \in ProcIds, work \in WorkOutcomes : THandled(p, work)
    \/ \E ws \in Connections : TDisconnect(ws)

\* One connection's queue_task messages for claude_request tasks of both
\* containers, among its other messages.
NextClosure ==
    \/ \E c \in Containers : TQueueTask("ws1", c, MaxTasksTwo)
    \/ TStartProcessor("ws1")
    \/ \E c \in Containers : TProcEnter(c)
    \/ \E p \in ProcIds : ProcGet(p)
    \/ \E p \in ProcIds : ProcTimeout(p)
    \/ \E p \in ProcIds : ProcResume(p)
    \/ \E p \in ProcIds : THandlerStart(p, MaxAgentTasks)
    \/ \E t \in ATaskIds, o \in {"exit0", "exit1"} : PlanDone(t, o)
    \/ \E p \in ProcIds, work \in WorkOutcomes : THandled(p, work)
    \/ \E c \in Containers : TQueueStatus("ws1", c)

\* Chat calls while tasks, queued tasks and sessions exist.
NextChat ==
    \/ \E o \in ChatOutcomes : ChatWithClaude(o)
    \/ \E c \in Containers : StartTask(c, MaxAgentTasks)
    \/ \E t \in ATaskIds, o \in {"exit0", "exit1"} : PlanDone(t, o)
    \/ QueueTask("c1", MaxTasksTwo)
    \/ \E name \in Providers : GetOrCreate("c1", name, NoDir, TRUE)
    \/ \E o \in 1..MaxSessions : Respond(o, TRUE, MaxResponds)

vars == <<qvars, avars, gvars, tvars, svars, lvars>>

Init == QInit /\ AInit /\ GInit /\ TInit /\ SInit /\ LInit

Next == QStep({"c1"}, MaxTasks)

NextTwo == QStep(Containers, MaxTasksTwo)

NextAgent == AStep(MaxAgentTasks, {"exit0", "exit1"})

\* The scheduler, one container served.
Spec == Init /\ [][Next]_vars

\* The scheduler, both containers served.
SpecTwo == Init /\ [][NextTwo]_vars

\* The orchestrator.
SpecAgent == Init /\ [][NextAgent]_vars

\* start_task with every way the planning agent can end, under Confirm and
\* Deny messages.
NextPlan ==
    \/ \E c \in Containers : StartTask(c, MaxAgentTasks)
    \/ \E t \in ATaskIds, o \in PlanOutcomes : PlanDone(t, o)
    \/ \E id \in 1..(MaxAgentTasks + 1) : ConfirmMsg(id)
    \/ \E k \in 1..MaxConfirms, forks \in BOOLEAN : ConfirmRun(k, forks)
    \/ \E k \in 1..MaxConfirms, o \in ExitOutcomes : AgentExit(k, o)
    \/ \E id \in 1..(MaxAgentTasks + 1) : DenyTask(id)

SpecPlan == Init /\ [][NextPlan]_vars

\* The worktrees.
SpecGit == Init /\ [][NextGit]_vars

\* The transport's queue_task messages.
SpecTransport == Init /\ [][NextTransport]_vars

\* Chat calls among the orchestrator's, the scheduler's and the registry's.
SpecChat == Init /\ [][NextChat]_vars

\* The handler closure.
SpecClosure == Init /\ [][NextClosure]_vars

\* The branch listing.
SpecList == Init /\ [][NextList]_vars

\* The session registry.
SpecSessions == Init /\ [][NextSessions]_vars

\* Long conversations.
SpecHistory == Init /\ [][NextHistory]_vars

\* The event loop runs every coroutine that can run, queue.get hands over a
\* waiting item, every handler invocation terminates, and the transport calls
\* start_processor after every queue_task.
Fairness ==
    /\ WF_vars(StartProcessor("c1"))
    /\ WF_vars(ProcEnter("c1"))
    /\ \A p \in ProcIds : WF_vars(ProcStep(p))
    /\ \A p \in ProcIds : WF_vars(ProcGet(p))

LiveSpec == Init /\ [][Next]_vars /\ Fairness

\* ------------------------------------------------------------------ claims
Terminal == {"completed", "failed", "cancelled"}

RunningOf(c) == {t \in TasksOf(c) : all_tasks[t].status = "running"}

\* C1: per container at most one task is Running, and a Running task's
\* handler is being executed by a processor that holds the lock of the
\* container's current queue record.
C1_MutualExclusion ==
    \A c \in Containers :
        /\ Cardinality(RunningOf(c)) <= 1
        /\ \A t \in RunningOf(c) :
              \E p \in ProcIds :
                  /\ procs[p].pc = "handler"
                  /\ procs[p].task = t
                  /\ HasCq(c)
                  /\ locks[cqs[container_queues[c]].lock].holder = p

\* A task is Running in a processor whose record clear_queue has replaced.
C1_Witness ==
    \E p \in ProcIds :
        /\ procs[p].pc = "handler"
        /\ procs[p].cq # container_queues[procs[p].container_id]
        /\ all_tasks[procs[p].task].status = "running"

\* C2: once a task has been marked Running, every task enqueued earlier for
\* the same container has reached a terminal status; so of two executed tasks
\* the earlier one started and ended before the later one started.
C2_EnqueueOrder ==
    \A t1, t2 \in TaskIds :
        (/\ t1 < t2
         /\ all_tasks[t1].container_id = all_tasks[t2].container_id
         /\ all_tasks[t2].started_at)
        => all_tasks[t1].status \in Terminal

\* Two tasks of one container have both been executed.
C2_Witness ==
    \E t1, t2 \in TaskIds :
        /\ t1 < t2
        /\ all_tasks[t1].container_id = all_tasks[t2].container_id
        /\ all_tasks[t1].status \in {"completed", "failed"}
        /\ all_tasks[t2].status \in {"completed", "failed"}

\* C3: every enqueued task eventually reaches Completed, Failed or Cancelled.
C3_EveryTaskEnds ==
    \A t \in 1..MaxTasks :
        [](t \in TaskIds => <>(t \in TaskIds /\ all_tasks[t].status \in Terminal))

\* C4: cancel_task on a Queued task returns True and sets Cancelled, and a
\* Cancelled task stays Cancelled and is never handed to the handler.
C4_CancelQueued ==
    [][\A t \in TaskIds :
          /\ (all_tasks[t].status = "queued" /\ ret'.op = "cancel_task" /\ ret'.arg = t)
             => (ret'.val = 1 /\ all_tasks'[t].status = "cancelled")
          /\ all_tasks[t].status = "cancelled"
             => (all_tasks'[t].status = "cancelled" /\ ~all_tasks'[t].started_at)]_vars

\* cancel_task has just returned True for a task the processor had already
\* taken out of the queue.
C4_Witness ==
    \E p \in ProcIds :
        /\ procs[p].pc = "got"
        /\ all_tasks[procs[p].task].status = "cancelled"
        /\ ret = [op |-> "cancel_task", arg |-> procs[p].task, val |-> 1]

StatusEdge(s1, s2) ==
    \/ s1 = s2
    \/ s1 = "queued" /\ s2 \in {"running", "cancelled"}
    \/ s1 = "running" /\ s2 \in {"completed", "failed"}

\* C5: every status change follows Queued -> Running -> {Completed, Failed}
\* or Queued -> Cancelled, and a new task starts Queued.
C5_StatusGraph ==
    [][/\ \A t \in TaskIds : StatusEdge(all_tasks[t].status, all_tasks'[t].status)
       /\ \A t \in DOMAIN all_tasks' \ TaskIds : all_tasks'[t].status = "queued"]_vars

\* All three terminal statuses have been reached.
C5_Witness ==
    /\ \E t \in TaskIds : all_tasks[t].status = "completed"
    /\ \E t \in TaskIds : all_tasks[t].status = "failed"
    /\ \E t \in TaskIds : all_tasks[t].status = "cancelled"

\* ------------------------------------------------- claims: orchestrator
AgentTerminal == {"completed", "failed", "denied"}

\* C6: the agent is spawned with full permissions for a task only by a
\* confirm_task that found it in pending_approval with its plan produced, and
\* never after deny_task returned True for the task.
C6_ApprovalGate ==
    [][\A t \in ATaskIds :
          exec_spawns'[t] > exec_spawns[t]
          => /\ tasks[t].status = "pending_approval"
             /\ tasks[t].plan # "none"
             /\ t \notin denied_ok]_vars

\* C7: a task that is Completed, Failed or Denied never changes status again.
C7_TerminalFinal ==
    [][\A t \in ATaskIds :
          tasks[t].status \in AgentTerminal => tasks'[t].status = tasks[t].status]_vars

\* What confirm_task must report for id in the current state when it rejects.
RejectText(id) ==
    IF id \in ATaskIds THEN NotPendingText(tasks[id].status) ELSE <<"Task not found">>

\* C8: a confirm_task that finds its task not in pending_approval, or finds
\* no task, sends one claude_error naming the task's status (or "Task not
\* found"), changes no task and spawns nothing.
C8_ConfirmRejected ==
    [][\A k \in DOMAIN confirms :
          (/\ confirms[k].pc = "created"
           /\ confirms'[k].pc # "created"
           /\ \/ confirms[k].task_id \notin ATaskIds
              \/ tasks[confirms[k].task_id].status # "pending_approval")
          => /\ tasks' = tasks
             /\ exec_spawns' = exec_spawns
             /\ confirms'[k].pc = "done"
             /\ confirms'[k].msgs =
                   Append(confirms[k].msgs,
                          Msg("claude_error", confirms[k].task_id,
                              RejectText(confirms[k].task_id)))]_vars

\* A confirm_task has answered that its task is denied, and another that its
\* task is unknown.
C8_Witness ==
    /\ \E k \in DOMAIN confirms :
          /\ confirms[k].pc = "done"
          /\ confirms[k].task_id \in ATaskIds
          /\ confirms[k].msgs[Len(confirms[k].msgs)].text = NotPendingText("denied")
          /\ tasks[confirms[k].task_id].status = "denied"
          /\ exec_spawns[confirms[k].task_id] = 0
    /\ \E k \in DOMAIN confirms :
          confirms[k].msgs[Len(confirms[k].msgs)].text = <<"Task not found">>

TerminalTypes == {"claude_complete", "claude_error"}

\* C9: a confirm_task that finds its task in pending_approval sets it
\* running; when the agent exits the task is completed with the output as
\* result (exit code 0) or failed with the error stored (otherwise); and a
\* finished confirm_task has sent exactly one terminal message, after the
\* "claude_running" acknowledgment.
C9_ConfirmOutcome ==
    [][\A k \in DOMAIN confirms :
          LET id == confirms[k].task_id
          IN /\ (confirms[k].pc = "created" /\ confirms'[k].pc = "exec")
                => (tasks[id].status = "pending_approval" /\ tasks'[id].status = "running")
             /\ (confirms[k].pc = "exec" /\ confirms'[k].pc = "done")
                => IF confirms'[k].exit = "exit0"
                   THEN tasks'[id].status = "completed" /\ tasks'[id].result = "output"
                   ELSE /\ tasks'[id].status = "failed"
                        /\ tasks'[id].error \in {"stderr", "Claude execution failed"}
             /\ (confirms[k].pc # "done" /\ confirms'[k].pc = "done")
                => /\ Len(confirms'[k].msgs) = 2
                   /\ confirms'[k].msgs[1].type = "claude_running"
                   /\ confirms'[k].msgs[2].type \in TerminalTypes]_vars

RunningAgentic(c) ==
    {t \in ATaskIds : tasks[t].container_id = c /\ tasks[t].status = "running"}

Executing(c) ==
    {k \in DOMAIN confirms :
        /\ confirms[k].pc = "exec"
        /\ tasks[confirms[k].task_id].container_id = c}

\* C10: per container at most one ClaudeTask is running, and at most one of
\* the agent executions and get_response calls is in progress.
C10_OneRunningPerContainer ==
    \A c \in Containers :
        /\ Cardinality(RunningAgentic(c)) <= 1
        /\ Cardinality(Executing(c)) + (IF responding = c THEN 1 ELSE 0) <= 1

\* ------------------------------------------- claims: scheduler, continued
\* The processor that executes the handler of t, holding lock l.
Executes(ps, ls, heap, p, t) ==
    /\ ps[p].pc = "handler"
    /\ ps[p].task = t
    /\ ls[heap[ps[p].cq].lock].holder = p

\* The tasks of container c whose status is Queued.
StillQueued(c) ==
    {t \in TaskIds : all_tasks[t].container_id = c /\ all_tasks[t].status = "queued"}

\* C11: clear_queue(c) returns the number N of Queued tasks of c and leaves
\* exactly those Cancelled and never started; every other task, of c or of
\* another container, is unchanged; a Running task of c stays Running, still
\* executed by its processor under the lock and still marked in the new
\* record; with no record for c it returns 0. A Cancelled task is never
\* handed to the handler.
C11_ClearQueue ==
    [][/\ ret'.op = "clear_queue" =>
            LET c == ret'.container_id
            IN /\ ret'.val = Cardinality(StillQueued(c))
               /\ ~HasCq(c) => (ret'.val = 0 /\ all_tasks' = all_tasks)
               /\ DOMAIN all_tasks' = TaskIds
               /\ \A t \in StillQueued(c) :
                     all_tasks'[t].status = "cancelled" /\ ~all_tasks'[t].started_at
               /\ \A t \in TaskIds \ StillQueued(c) : all_tasks'[t] = all_tasks[t]
               /\ procs' = procs
               /\ \A t \in RunningOf(c) :
                     /\ \E p \in ProcIds : Executes(procs', locks', cqs', p, t)
                     /\ cqs'[container_queues'[c]].running_task = t
                     /\ cqs'[container_queues'[c]].queue = <<>>
       /\ \A t \in TaskIds :
             all_tasks[t].status = "cancelled"
             => (all_tasks'[t].status = "cancelled" /\ ~all_tasks'[t].started_at)]_vars

\* clear_queue has just returned a positive count for a container that has a
\* Running task.
C11_Witness ==
    /\ ret.op = "clear_queue"
    /\ ret.val >= 1
    /\ RunningOf(ret.container_id) # {}
    /\ \E t \in TasksOf(ret.container_id) : all_tasks[t].status = "cancelled"

\* C12: cancel_task returns False and changes nothing when the id is unknown
\* or the task is Running, Completed, Failed or Cancelled; a Running task
\* leaves Running only to Completed or Failed, as its handler ended (Failed
\* exactly when the handler's exception was recorded), with completed_at set.
C12_CancelRefused ==
    [][/\ (/\ ret'.op = "cancel_task"
           /\ \/ ret'.arg \notin TaskIds
              \/ all_tasks[ret'.arg].status # "queued")
          => /\ ret'.val = 0
             /\ all_tasks' = all_tasks
             /\ <<container_queues, cqs, locks, spawned, procs>>' =
                   <<container_queues, cqs, locks, spawned, procs>>
       /\ \A t \in TaskIds :
             (all_tasks[t].status = "running" /\ all_tasks'[t].status # "running")
             => /\ all_tasks'[t].status \in {"completed", "failed"}
                /\ all_tasks'[t].completed_at
                /\ all_tasks'[t].status = "failed" <=> all_tasks'[t].error = "exception"
                /\ \E p \in ProcIds : procs[p].pc = "handler" /\ procs[p].task = t]_vars

\* cancel_task has just returned False for a Running task, and earlier tasks
\* have ended both ways.
C12_Witness ==
    /\ ret.op = "cancel_task"
    /\ ret.val = 0
    /\ ret.arg \in TaskIds
    /\ all_tasks[ret.arg].status = "running"
    /\ \E t \in TaskIds : all_tasks[t].status = "completed"
    /\ \E t \in TaskIds : all_tasks[t].status = "failed"

\* The process_queue coroutines of container c that are past the entry guard.
Active(c) == {p \in ProcIds : procs[p].pc # "idle" /\ procs[p].container_id = c}

Queues(heap) == [r \in CqIds |-> heap[r].queue]

\* C13: per container at most one process_queue coroutine is past its entry
\* guard; start_processor spawns nothing while one is; and a spawned coroutine
\* that enters while one is past the guard returns at once: it does not
\* become active and takes nothing from any queue.
C13_SingleProcessor ==
    /\ [](\A c \in Containers : Cardinality(Active(c)) <= 1)
    /\ [][\A c \in Containers :
             Active(c) # {}
             => /\ spawned'[c] <= spawned[c]
                /\ spawned'[c] < spawned[c]
                   => /\ procs' = procs
                      /\ all_tasks' = all_tasks
                      /\ Queues(cqs') = Queues(cqs)
                      /\ ret'.op = "process_queue"]_vars

\* A second coroutine, spawned before the first one ran, has just returned
\* at the entry guard while the first one holds a dequeued task.
C13_Witness ==
    /\ ret.op = "process_queue"
    /\ \E p \in Active(ret.container_id) : procs[p].pc = "handler"

RECURSIVE Elems(_)
Elems(q) == IF q = <<>> THEN {} ELSE {Head(q)} \cup Elems(Tail(q))

\* Task t waits in the queue of a process_queue coroutine that is past its
\* entry guard.
Pending(t) ==
    \E p \in ProcIds : procs[p].pc # "idle" /\ t \in Elems(cqs[procs[p].cq].queue)

\* C14: when the handler call ends the task is Failed exactly when the handler
\* raised, with the error text and completed_at recorded; running_task is
\* cleared, the lock released, and the coroutine is back at queue.get on the
\* same record with its queue untouched; and every task waiting in the queue
\* of an active coroutine eventually reaches a terminal status.
C14_HandlerRaises ==
    /\ [][\A p \in ProcIds :
             (procs[p].pc = "handler" /\ procs'[p].pc # "handler")
             => LET t == procs[p].task
                    r == procs[p].cq
                IN /\ all_tasks'[t].status \in {"completed", "failed"}
                   /\ all_tasks'[t].status = "failed" <=> all_tasks'[t].error = "exception"
                   /\ all_tasks'[t].completed_at
                   /\ cqs'[r].running_task = 0
                   /\ locks'[cqs'[r].lock].holder = 0
                   /\ procs'[p] = [procs[p] EXCEPT !.pc = "get", !.task = 0]
                   /\ cqs'[r].queue = cqs[r].queue]_vars
    /\ \A t \in 1..MaxTasks :
          [](t \in TaskIds /\ Pending(t)
             => <>(t \in TaskIds /\ all_tasks[t].status \in Terminal))

\* A handler raised for one task and a task enqueued after it was completed.
C14_Witness ==
    \E t1, t2 \in TaskIds :
        /\ t1 < t2
        /\ all_tasks[t1].status = "failed"
        /\ all_tasks[t1].error = "exception"
        /\ all_tasks[t2].status = "completed"
        /\ all_tasks[t1].container_id = all_tasks[t2].container_id

\* C15: containers do not block each other. No process_queue coroutine ever
\* waits for a lock; coroutines of different containers work on different
\* locks; and a coroutine that was handed a task finds its lock free, so the
\* task is marked Running in its next step whatever the other container's
\* handler is doing.
C15_NoCrossBlocking ==
    \A p \in ProcIds :
        procs[p].pc # "idle"
        => /\ procs[p].pc # "lockwait"
           /\ \A q \in ProcIds :
                 (procs[q].pc # "idle" /\ procs[q].container_id # procs[p].container_id)
                 => cqs[procs[q].cq].lock # cqs[procs[p].cq].lock
           /\ procs[p].pc = "got" => locks[cqs[procs[p].cq].lock].holder = 0
           /\ procs[p].pc = "handler" => locks[cqs[procs[p].cq].lock].holder = p

\* A task of c1 and a task of c2 are Running at the same time.
C15_Witness ==
    /\ \E t \in TaskIds : all_tasks[t].container_id = "c1" /\ all_tasks[t].status = "running"
    /\ \E t \in TaskIds : all_tasks[t].container_id = "c2" /\ all_tasks[t].status = "running"

\* ----------------------------------------- claims: orchestrator, continued
PlanErrors ==
    {"stderr", "Claude planning failed", "Claude planning timed out",
     "Claude CLI not found. Is it installed?", "str(e)"}

\* C16: start_task registers the new task in planning with the planning
\* agent awaited, awaits the agent once per task, and when it returns the
\* task is in pending_approval with the planner's output as plan, or in
\* failed with no plan and one of the error messages; it is not in planning.
C16_StartTaskReturns ==
    [][/\ \A t \in DOMAIN tasks' \ ATaskIds :
             /\ tasks'[t].status = "planning"
             /\ tasks'[t].plan = "none" /\ tasks'[t].error = "none"
             /\ t \in planning'
       /\ \A t \in ATaskIds : t \notin planning => t \notin planning'
       /\ \A t \in planning \ planning' :
             \/ /\ tasks'[t].status = "pending_approval"
                /\ tasks'[t].plan = "plan"
                /\ tasks'[t].error = "none"
             \/ /\ tasks'[t].status = "failed"
                /\ tasks'[t].plan = "none"
                /\ tasks'[t].error \in PlanErrors]_vars

\* One start_task has returned a failed task because the planner timed out,
\* another because the executable is missing.
C16_Witness ==
    /\ planning = {}
    /\ \E t \in ATaskIds :
          tasks[t].status = "failed" /\ tasks[t].error = "Claude planning timed out"
    /\ \E t \in ATaskIds :
          tasks[t].status = "failed" /\ tasks[t].error = "Claude CLI not found. Is it installed?"

\* ------------------------------------------------------ claims: worktrees
\* C17: start_task with a branch starts the planning agent in the branch's
\* worktree directory, which exists from then on (created when it was missing).
C17_PlansInWorktree ==
    [][\A r \in plan_cwd' \ plan_cwd :
          r.branch # NoBranch
          => /\ r.cwd = WorktreePath(r.branch)
             /\ WorktreePath(r.branch) \in dirs']_vars

\* C20: a create_worktree call for a branch whose earlier call returned
\* created=True, with no remove_worktree since, returns at once with
\* success=True, existed=True and the same path: git is not invoked.
C20_CreateIdempotent ==
    [][Len(git_calls') > Len(git_calls)
       => LET call == git_calls'[Len(git_calls')]
          IN call.op = "create"
             => \A r \in created :
                   r.branch = call.branch
                   => /\ call.pc = "done"
                      /\ call.result.success
                      /\ call.result.existed
                      /\ ~call.result.created
                      /\ call.result.path = r.path
                      /\ dirs' = dirs /\ branches' = branches]_vars

\* A branch was created by one call and a later call for it returned
\* existed=True.
C20_Witness ==
    \E j, k \in DOMAIN git_calls :
        /\ j < k
        /\ git_calls[j].op = "create" /\ git_calls[j].result.created
        /\ git_calls[k].op = "create" /\ git_calls[k].result.existed
        /\ git_calls[k].branch = git_calls[j].branch
        /\ git_calls[k].result.path = git_calls[j].result.path
        /\ \E r \in created : r.branch = git_calls[k].branch

\* ------------------------------------------------------ claims: transport
\* C18: when the handler call for a task ends, the task is completed exactly
\* when queued_task_complete was sent for it and nothing else, and failed when
\* a queued_task_failed was handed to the connection, with the error recorded.
C18_StatusMatchesNotification ==
    [][\A t \in TaskIds :
          (all_tasks[t].status = "running" /\ all_tasks'[t].status # "running")
          => LET sent == notes'[t]
                 failure == \E i \in DOMAIN sent : sent[i].type = "queued_task_failed"
             IN /\ all_tasks'[t].status = "completed"
                   <=> (Len(sent) = 1 /\ sent[1].type = "queued_task_complete" /\ sent[1].ok)
                /\ failure
                   => (all_tasks'[t].status = "failed" /\ all_tasks'[t].error # "none")]_vars

\* C19: every terminal notification of a task is handed to the connection
\* whose queue_task message enqueued the task.
C19_NotifiesOrigin ==
    \A t \in DOMAIN notes :
        \A i \in DOMAIN notes[t] : notes[t][i].ws = origin[t]

\* ---------------------------------------------------- claims: path lookup
\* C21: a lookup of the working path of a branch changes neither directories
\* nor branches; it yields the default directory for no branch, the worktree
\* directory <worktrees-root>/<sanitized branch> when that exists and the
\* default directory otherwise; the result is the default directory or lies
\* strictly below the worktrees root.
C21_ResolvePath ==
    [][\A r \in plan_cwd' \ plan_cwd :
          LET path == Join(WorktreesDir, sanitize_branch_name(r.branch))
          IN /\ dirs' = dirs
             /\ branches' = branches
             /\ r.cwd = IF r.branch = NoBranch THEN WorkDir
                        ELSE IF path \in dirs THEN path ELSE WorkDir
             /\ r.cwd = WorkDir \/ Below(r.cwd, WorktreesDir)]_vars

\* --------------------------------------------------------- claims: sessions
ClearOps == {"clear_one", "clear_all", "clear_everything"}

Registered(k) == container_sessions[k] # 0

\* C22: two keys never name the same provider object; a key keeps its object
\* until a Clear call removes it; a successful get_ai_for_container of a key
\* that has an object returns that object with its history as it was and
\* constructs nothing, and of a key without one constructs one object with an
\* empty history; no other call constructs an object.
C22_SameSession ==
    /\ [](\A k1, k2 \in SessKeys :
              (k1 # k2 /\ Registered(k1) /\ Registered(k2))
              => container_sessions[k1] # container_sessions[k2])
    /\ [][\A k \in SessKeys :
              Registered(k)
              => \/ container_sessions'[k] = container_sessions[k]
                 \/ container_sessions'[k] = 0 /\ sret'.op \in ClearOps]_vars
    /\ [][(sret' # sret /\ sret'.op = "get" /\ sret'.error = "none")
          => LET k == sret'.key
                 o == sret'.val
             IN IF Registered(k)
                THEN /\ o = container_sessions[k]
                     /\ Len(objs') = Len(objs)
                     /\ objs'[o].history = objs[o].history
                ELSE /\ o = Len(objs) + 1
                     /\ Len(objs') = Len(objs) + 1
                     /\ objs'[o].history = <<>>
                     /\ container_sessions'[k] = o]_vars
    /\ [][Len(objs') # Len(objs)
          => sret'.op = "get" /\ ~Registered(sret'.key)]_vars

\* A key with a conversation is looked up again while another key has a
\* session too.
C22_Witness ==
    /\ sret.op = "get"
    /\ sret.val # 0
    /\ container_sessions[sret.key] = sret.val
    /\ objs[sret.val].history # <<>>
    /\ \E k \in SessKeys : k # sret.key /\ Registered(k)

\* The last n entries of a history.
Recent(history, n) ==
    IF Len(history) > n THEN SubSeq(history, Len(history) - n + 1, Len(history))
    ELSE history

\* C23: after an answered get_response call on a provider object its history
\* has at most 40 entries, which are the most recent ones of the history
\* before the call followed by the call's user message and reply, in order.
C23_HistoryWindow ==
    [][\A o \in ObjIds :
          objs'[o].calls = objs[o].calls + 1
          => LET n == objs'[o].calls
                 after == objs'[o].history
                 reply == after[Len(after)]
             IN /\ Len(after) >= 2
                /\ Len(after) <= HistoryWindow
                /\ reply.content = n /\ reply.role # "user"
                /\ after = Recent(objs[o].history \o <<Entry("user", n), reply>>,
                                  HistoryWindow)]_vars

\* ----------------------------------------------------- claims: scheduler
\* C24: in every state get_queue_status of a container reports running = 1
\* and the summary of task t exactly when task t of the container has status
\* running, and running = 0 and no summary when none has.
C24_StatusRunning ==
    \A c \in Containers :
        LET status == get_queue_status(c)
        IN /\ \A t \in TasksOf(c) :
                 all_tasks[t].status = "running"
                 <=> (status.running = 1 /\ status.running_task = t)
           /\ (\A t \in TasksOf(c) : all_tasks[t].status # "running")
              => (status.running = 0 /\ status.running_task = 0)

\* C25: a get_ai_for_container call that is given a directory records it for
\* the container, and afterwards the container's LocalProvider, if it has one,
\* works in that directory; a LocalProvider constructed by a call without a
\* directory works in the directory recorded for the container.
C25_WorkDirApplied ==
    [][(sret' # sret /\ sret'.op = "get")
       => LET c == sret'.key[1]
              local == container_sessions'[<<c, "local">>]
          IN /\ container_work_dirs'[c] # container_work_dirs[c]
                => (container_work_dirs'[c] # NoDir /\ local # 0
                    => objs'[local].work_dir = container_work_dirs'[c])
             /\ Len(objs') > Len(objs) /\ local = Len(objs')
                => objs'[local].work_dir = container_work_dirs'[c]]_vars

\* -------------------------------------------------- claims: deny_task
\* C26: a task becomes denied only in a deny_task call for it, and only from
\* pending_approval.
C26_DeniedFromPending ==
    [][\A t \in ATaskIds :
          (tasks'[t].status = "denied" /\ tasks[t].status # "denied")
          => /\ tasks[t].status = "pending_approval"
             /\ aret'.op = "deny_task" /\ aret'.arg = t]_vars

\* C27: deny_task returns True exactly for an id in _tasks; a call for an id
\* that is not there returns False and leaves _tasks as it was, and no call
\* adds a task.
C27_DenyReturns ==
    [][aret'.op = "deny_task" /\ aret' # aret
       => /\ aret'.val = 1 <=> aret'.arg \in ATaskIds
          /\ DOMAIN tasks' = DOMAIN tasks
          /\ aret'.arg \notin ATaskIds => (aret'.val = 0 /\ tasks' = tasks)]_vars

\* deny_task returned False while tasks exist.
C27_Witness ==
    /\ aret.op = "deny_task"
    /\ aret.val = 0
    /\ tasks # <<>>

\* ------------------------------------------------ claims: confirm_task
\* C28: the agent is spawned at most once per task; a confirm_task coroutine
\* that finds its task in pending_approval takes it to running and spawns the
\* agent (or, the spawn failing, to failed), and one that finds no task or
\* another status sends claude_error and spawns nothing.
C28_SpawnOnce ==
    /\ [](\A t \in ATaskIds : exec_spawns[t] <= 1)
    /\ [][\A k \in DOMAIN confirms :
              confirms[k].pc = "created" /\ confirms'[k].pc # "created"
              => LET id == confirms[k].task_id
                     sent == confirms'[k].msgs
                 IN IF id \in ATaskIds /\ tasks[id].status = "pending_approval"
                    THEN /\ tasks'[id].status \in {"running", "failed"}
                         /\ tasks'[id].status = "running"
                            <=> exec_spawns'[id] = exec_spawns[id] + 1
                         /\ tasks'[id].status = "failed" => exec_spawns' = exec_spawns
                    ELSE /\ exec_spawns' = exec_spawns
                         /\ tasks' = tasks
                         /\ sent[Len(sent)].type = "claude_error"]_vars

\* Two confirm_task coroutines for one task: one runs the agent, the other
\* has reported an error.
C28_Witness ==
    \E k1, k2 \in DOMAIN confirms :
        /\ k1 # k2
        /\ confirms[k1].task_id = confirms[k2].task_id
        /\ confirms[k1].pc = "exec"
        /\ confirms[k2].pc = "done"
        /\ confirms[k2].msgs[Len(confirms[k2].msgs)].type = "claude_error"
        /\ exec_spawns[confirms[k1].task_id] = 1

\* ---------------------------------------------- claims: processor exit
\* The process_queue coroutines of container c past their entry.
LoopsOf(c) == {p \in ProcIds : procs[p].pc # "idle" /\ procs[p].container_id = c}

\* C29: the processor-active flag of a container's current record is set only
\* while a process_queue loop of the container is alive, so that once the
\* loop has left, start_processor starts a new one.
C29_FlagFollowsLoop ==
    \A c \in Containers :
        (HasCq(c) /\ cqs[container_queues[c]].processor_running)
        => LoopsOf(c) # {}

\* ------------------------------------------------------ claims: cleanup
\* C30: a directory that cleanup_orphaned_worktrees removes is not the
\* worktree directory of any existing branch, and the number it returns is
\* the number of directories it removed.
C30_CleanupKeepsLive ==
    [][\A k \in DOMAIN git_calls :
          (git_calls[k].op = "cleanup" /\ git_calls'[k] # git_calls[k])
          => /\ \A d \in dirs \ dirs' : \A b \in branches : WorktreePath(b) # d
             /\ git_calls'[k].removed
                = git_calls[k].removed + Cardinality(dirs \ dirs')]_vars

\* ---------------------------------------------------- claims: isolation
\* C31: a create_worktree call answers existed=True only for a directory that
\* was not created for another branch, the planning agent of a task with a
\* branch is never started in a directory created for another branch, and a
\* non-empty branch never resolves to the worktrees root.
C31_Isolation ==
    /\ [][Len(git_calls') > Len(git_calls)
          => LET call == git_calls'[Len(git_calls')]
             IN (call.op = "create" /\ call.result.existed)
                => \A r \in created :
                      r.path = call.result.path => r.branch = call.branch]_vars
    /\ [](\A p \in plan_cwd :
              /\ \A r \in created : r.path = p.cwd => r.branch = p.branch
              /\ p.branch # NoBranch => p.cwd # WorktreesDir)

C33_ListBranches ==
    [][(lret' # lret /\ lret'.op = "list_branches" /\ lret'.listed)
       => lret'.val
          = {[name |-> b, current |-> b = head,
              hasWorktree |-> \E w \in worktree_list : HasBranch(w) /\ w.branch = b] :
                b \in branches}]_vars

\* ------------------------------------------------------- claims: clearing
\* C34: clear_container_session with a provider name removes the entry of
\* that key only, without a name the entries of the container's keys only,
\* clear_all_sessions every entry; none of them touches a provider object; a
\* get_ai_for_container for a key without an entry returns an object that did
\* not exist before, with an empty history.
C34_ClearFrames ==
    [][sret' # sret
       => /\ sret'.op = "clear_one"
             => /\ container_sessions' = [container_sessions EXCEPT ![sret'.key] = 0]
                /\ objs' = objs
          /\ sret'.op = "clear_all"
             => /\ \A k \in SessKeys :
                      container_sessions'[k]
                      = IF k[1] = sret'.key[1] THEN 0 ELSE container_sessions[k]
                /\ objs' = objs
          /\ sret'.op = "clear_everything"
             => /\ \A k \in SessKeys : container_sessions'[k] = 0
                /\ objs' = objs
          /\ (sret'.op = "get" /\ sret'.error = "none" /\ ~Registered(sret'.key))
             => /\ sret'.val \notin ObjIds
                /\ objs'[sret'.val].history = <<>>]_vars

\* clear_container_session(c) came after a session with a conversation had
\* been removed, and left the other container's session alone.
C34_Witness ==
    /\ sret.op = "clear_all"
    /\ \E k \in SessKeys : k[1] # sret.key[1] /\ Registered(k)
    /\ \E o \in ObjIds :
          /\ objs[o].history # <<>>
          /\ \A k \in SessKeys : container_sessions[k] # o

\* C35: right after clear_container_session(c) or clear_all_sessions no
\* directory is recorded for a cleared container, so that a LocalProvider
\* constructed next for it without a directory has no work_dir.
C35_NothingSurvives ==
    \A c \in Containers :
        (sret.op = "clear_everything" \/ (sret.op = "clear_all" /\ sret.key[1] = c))
        => NewLocal(container_work_dirs[c]).work_dir = NoDir

\* A history of complete exchanges: a question, then its reply.
Paired(history) ==
    /\ Len(history) % 2 = 0
    /\ \A i \in 1..Len(history) :
          IF i % 2 = 1 THEN history[i].role = "user"
          ELSE history[i].role \in {"assistant", "model"}

\* C36: a get_response call that raises leaves every session as it was, and
\* a get_response call, raising or not, on a history of complete exchanges
\* leaves a history of complete exchanges.
C36_FailedKeepsHistory ==
    [][(sret'.op = "get_response" /\ sret' # sret)
       => /\ sret'.error = "raised" => objs' = objs
          /\ Paired(objs[sret'.val].history) => Paired(objs'[sret'.val].history)]_vars

\* A call raised on a session that holds a full window of conversation.
C36_Witness ==
    /\ sret.op = "get_response"
    /\ sret.error = "raised"
    /\ Len(objs[sret.val].history) = HistoryWindow
    /\ Paired(objs[sret.val].history)

\* C37: set_history(history) leaves the session of whichever provider with
\* exactly the supplied entries, in the supplied order, as its history.
C37_HistoryReplaced ==
    [][(sret'.op = "set_history" /\ sret' # sret)
       => objs'[sret'.val].history = sret'.arg]_vars

\* C38: the ClaudeTask that the handler created for a queued task belongs
\* to the queued task's container.
C38_OwnerOfTask ==
    \A t \in DOMAIN made :
        made[t] # 0 => tasks[made[t]].container_id = all_tasks[t].container_id

\* What chat_with_claude says when the agent gave no answer.
Apologies ==
    {"Sorry, I encountered an error: stderr",
     "Sorry, I took too long to respond. Try again.",
     "Claude CLI is not installed or not in PATH.",
     "Sorry, an error occurred: str(e)"}

\* C39: a chat_with_claude call ends by returning a text, an apology unless
\* the agent exited with 0, and leaves the ClaudeTasks, the QueuedTasks and
\* the sessions as they were.
C39_ChatReturnsText ==
    [][(aret'.op = "chat_with_claude" /\ aret' # aret)
       => /\ ~aret'.raised
          /\ IF aret'.outcome = "exit0" THEN aret'.text = "stdout"
             ELSE aret'.text \in Apologies
          /\ UNCHANGED <<tasks, planning, confirms, exec_spawns>>
          /\ UNCHANGED <<all_tasks, container_queues, cqs>>
          /\ UNCHANGED <<container_sessions, container_work_dirs, objs>>]_vars

\* A chat call ended on an exception while a ClaudeTask, a QueuedTask and a
\* session with a conversation existed.
C39_Witness ==
    /\ aret.op = "chat_with_claude"
    /\ aret.outcome = "exception"
    /\ tasks # <<>>
    /\ all_tasks # <<>>
    /\ \E o \in ObjIds : objs[o].history # <<>>

====
